---- MODULE Spec2Model ----
(***************************************************************************)
(* The transcript cache of the YouTube tools API (app/utils/               *)
(* transcript_cache.py), the cache-then-fetch sequence that uses it        *)
(* (app/utils/youtube_tools.py, YouTubeTools._fetch_transcript) and the    *)
(* request handlers that reach it (app/routes/youtube.py).                 *)
(*                                                                         *)
(* The OrderedDict is a sequence of entries, first = least recently used.  *)
(* Every handler is a small program counter machine; one step is one       *)
(* statement (or one loop iteration) of the Python source.  time.time()    *)
(* is the variable now, which the environment advances between any two     *)
(* steps.                                                                  *)
(***************************************************************************)
EXTENDS Integers, Sequences, FiniteSets, TLC

\* ---------------------------------------------------------------- bounds
MaxTime == 1        \* the clock runs over 0..MaxTime
MaxTtl == 1         \* CACHE_TTL_SECONDS is drawn from 0..MaxTtl
MaxCap == 2         \* CACHE_MAX_SIZE is drawn from 0..MaxCap
MaxLangs == 2       \* _make_key is given language lists of up to MaxLangs codes

Handlers == {"h1", "h2"}          \* request handlers in flight
VideoIds == {"a", "b"}
Langs == {"en", "es"}
Payloads == {"P1", "P2"}          \* transcripts, opaque to the cache

NoneVal == "None"                 \* Python's None where a transcript is expected

\* Optional[List[str]]: None, or a list of language codes
NoLanguages == [none |-> TRUE, items |-> <<>>]
SomeLanguages(l) == [none |-> FALSE, items |-> l]

\* the (video_id, languages) arguments the calls are made with
Requests ==
    { [video_id |-> "a", languages |-> NoLanguages],
      [video_id |-> "a", languages |-> SomeLanguages(<<"en">>)],
      [video_id |-> "a", languages |-> SomeLanguages(<<"en", "es">>)],
      [video_id |-> "a", languages |-> SomeLanguages(<<"es", "en">>)],
      [video_id |-> "b", languages |-> SomeLanguages(<<>>)] }

VARIABLES
    cache,          \* TranscriptCache._cache: sequence of [key, transcript, timestamp]
    enabled,        \* TranscriptCache.enabled
    ttl_seconds,    \* TranscriptCache.ttl_seconds
    max_size,       \* TranscriptCache.max_size
    now,            \* time.time()
    pc,             \* per handler: the statement it is at
    frame,          \* per handler: arguments, locals and result of its call
    lastSet,        \* history: per stored entry, the payload of the latest set call
    recency,        \* history: the stored keys in the order of their latest use
    prevFetch,      \* history: the latest _fetch_transcript call that reached cache.set
    origin,         \* history: per stored key, the api.fetch call its transcript came from
    keyIn,          \* the two argument pairs given to _make_key (SpecKey)
    keyOut          \* the two keys _make_key produced for them (SpecKey)

cacheVars == <<cache, enabled, ttl_seconds, max_size, now, pc, frame, lastSet, recency,
               prevFetch, origin>>
keyVars == <<keyIn, keyOut>>
vars == <<cache, enabled, ttl_seconds, max_size, now, pc, frame, lastSet, recency,
          prevFetch, origin, keyIn, keyOut>>

config == <<enabled, ttl_seconds, max_size>>
history == <<lastSet, recency, prevFetch, origin>>

\* ------------------------------------------------------- Python helpers

\* the order sorted() puts language codes in
LangRank(x) == IF x = "en" THEN 1 ELSE 2

RECURSIVE InsertSorted(_, _)
InsertSorted(x, s) ==
    IF s = <<>> THEN <<x>>
    ELSE IF LangRank(x) <= LangRank(Head(s)) THEN <<x>> \o s
    ELSE <<Head(s)>> \o InsertSorted(x, Tail(s))

RECURSIVE Sorted(_)
Sorted(s) == IF s = <<>> THEN <<>> ELSE InsertSorted(Head(s), Sorted(Tail(s)))

\* list.count: the occurrences of x in list l
CountOf(l, x) == Cardinality({i \in DOMAIN l : l[i] = x})

\* truth value of an Optional[List[str]]: None and [] are falsy
Truthy(languages) == ~languages.none /\ Len(languages.items) > 0

\* TranscriptCache._make_key, with sorting left out (a mutation of MakeKey)
MakeKeyUnsorted(video_id, languages) ==
    [video_id |-> video_id,
     langs |-> IF Truthy(languages) THEN languages.items ELSE <<"en">>]

\* TranscriptCache._make_key, keyed by the video alone (a mutation of MakeKey)
MakeKeyIdOnly(video_id, languages) == [video_id |-> video_id, langs |-> <<"en">>]

\* TranscriptCache._make_key, sorting the set of the codes: duplicates are
\* dropped (a mutation of MakeKey)
MakeKeyDeduplicated(video_id, languages) ==
    [video_id |-> video_id,
     langs |-> IF Truthy(languages)
               THEN SelectSeq(<<"en", "es">>, LAMBDA x : CountOf(languages.items, x) > 0)
               ELSE <<"en">>]

\* TranscriptCache._make_key
MakeKey(video_id, languages) ==
    [video_id |-> video_id,
     langs |-> IF Truthy(languages) THEN Sorted(languages.items) ELSE <<"en">>]

\* TranscriptCache._is_expired, never expiring (a mutation of IsExpired)
IsExpiredNever(timestamp) == FALSE

\* TranscriptCache._is_expired, with >= for > (a mutation of IsExpired)
IsExpiredNonStrict(timestamp) == now - timestamp >= ttl_seconds

\* TranscriptCache._is_expired
IsExpired(timestamp) == now - timestamp > ttl_seconds

\* the loop condition of set's eviction, with > for >= (a mutation of Full)
FullOffByOne(c) == Len(c) > max_size

\* the loop condition of set's eviction, evicting one entry early (a
\* mutation of Full)
FullOneEarly(c) == Len(c) >= max_size - 1

\* the loop condition of set's eviction
Full(c) == Len(c) >= max_size

\* move_to_end left out (a mutation of MoveToEnd)
MoveToEndNoop(c, k) == c

\* OrderedDict operations on the sequence of entries
HasKey(c, k) == \E i \in DOMAIN c : c[i].key = k
IndexOf(c, k) == CHOOSE i \in DOMAIN c : c[i].key = k
Lookup(c, k) == c[IndexOf(c, k)]
DelKey(c, k) == SelectSeq(c, LAMBDA e : e.key # k)

\* move_to_end stamping the entry with the time of the read (a mutation of
\* MoveToEnd)
MoveToEndRefreshed(c, k) == Append(DelKey(c, k), [Lookup(c, k) EXCEPT !.timestamp = now])

MoveToEnd(c, k) == Append(DelKey(c, k), Lookup(c, k))

\* the assignment putting a new key first instead of last (a mutation of SetItem)
SetItemFirst(c, e) == <<e>> \o DelKey(c, e.key)

SetItem(c, e) ==
    IF HasKey(c, e.key) THEN [c EXCEPT ![IndexOf(c, e.key)] = e] ELSE Append(c, e)

\* get's removal of the expired entry, left out (a mutation of DropExpired)
DropExpiredKeeps(c, k) == c

\* get's removal sweeping every expired entry along (a mutation of DropExpired)
DropExpiredSweeps(c, k) == SelectSeq(c, LAMBDA e : e.key # k /\ ~IsExpired(e.timestamp))

\* get's removal of the expired entry it found under key k
DropExpired(c, k) == DelKey(c, k)

\* --------------------------------------------------------------- frames

NoKey == [video_id |-> "", langs |-> <<>>]

EmptyFrame ==
    [op |-> "none",            \* the call the handler serves
     video_id |-> "",          \* argument
     languages |-> NoLanguages,\* argument (for _fetch_transcript: as requested)
     transcript |-> NoneVal,   \* set's argument, get's local, the fetched payload
     key |-> NoKey,            \* local: the cache key
     timestamp |-> 0,          \* local
     expired_keys |-> <<>>,    \* cleanup_expired's local list
     idx |-> 0,                \* cleanup_expired's position in the scan
     evicted |-> <<>>,         \* entries popitem took out during this call
     removed |-> <<>>,         \* entries del took out during this call
     missed |-> FALSE,         \* _fetch_transcript: cache.get returned None
     fetches |-> 0,            \* _fetch_transcript: the number of api.fetch calls
     fetch_result |-> NoneVal, \* _fetch_transcript: what api.fetch gave ("fail": raised)
     fetch_args |-> [video_id |-> "", languages |-> <<>>],
                               \* _fetch_transcript: what api.fetch was called with
     requested |-> NoLanguages,\* _fetch_transcript: the languages as the caller gave them
     called_set |-> FALSE,     \* _fetch_transcript: cache.set was invoked
     before |-> <<>>,          \* the store as the running cache operation found it
     prior |-> NoneVal,        \* payload the previous _fetch_transcript stored for the entry
     at |-> 0,                 \* the clock as the call read it
     ret |-> NoneVal,          \* returned transcript (None where none)
     count |-> -1,             \* returned integer (size, cleanup_expired)
     exc |-> "none"]           \* the exception the call ended with

\* ---------------------------------------------------- history (ghosts)

\* the entry a call addresses, told apart by id and by the languages as a
\* multiset, without reference to _make_key
Addressed(video_id, languages) ==
    LET l == IF Truthy(languages) THEN languages.items ELSE <<"en">>
    IN  [video_id |-> video_id, bag |-> [x \in Langs |-> CountOf(l, x)]]
AddressedSet == {Addressed(r.video_id, r.languages) : r \in Requests}

AddressedByKey(k) ==
    [video_id |-> k.video_id, bag |-> [x \in Langs |-> CountOf(k.langs, x)]]

\* a use of key k: it becomes the most recently used
Touch(r, k) == Append(SelectSeq(r, LAMBDA x : x # k), k)

\* the histories keep what is stored: they forget the entries that left store c
Stored(r, c) == SelectSeq(r, LAMBDA x : HasKey(c, x))
Kept(ls, c) ==
    [a \in AddressedSet |->
        IF \E i \in DOMAIN c : AddressedByKey(c[i].key) = a THEN ls[a] ELSE NoneVal]

NoFetch == [video_id |-> "", bag |-> [x \in Langs |-> 0], transcript |-> NoneVal]

\* the origins of what is stored: those of the keys that left store c are forgotten
Known(o, c) == {x \in o : HasKey(c, x.key)}

\* ------------------------------------------------------------ scheduling

\* Handlers are coroutines on one event loop and contain no await: once a
\* handler has started, no other handler takes a step until it has returned.
\* (a mutation of MayRun: handlers pre-empt each other between statements)
MayRunPreemptive(h) == TRUE

MayRun(h) == \A g \in Handlers \ {h} : pc[g] = "idle"

\* ----------------------------------------------------------------- Init

Init ==
    /\ cache = <<>>
    /\ enabled \in BOOLEAN
    /\ ttl_seconds \in 0..MaxTtl
    /\ max_size \in 0..MaxCap
    /\ now = 0
    /\ pc = [h \in Handlers |-> "idle"]
    /\ frame = [h \in Handlers |-> EmptyFrame]
    /\ lastSet = [a \in AddressedSet |-> NoneVal]
    /\ recency = <<>>
    /\ prevFetch = NoFetch
    /\ origin = {}
    /\ keyIn = <<>>
    /\ keyOut = <<>>

\* the clock advances
Tick ==
    /\ now < MaxTime
    /\ now' = now + 1
    /\ UNCHANGED <<cache, pc, frame>>
    /\ UNCHANGED <<config, history, keyVars>>


\* ------------------------------------------------------- control flow

Goto(h, label, f) ==
    /\ pc' = [pc EXCEPT ![h] = label]
    /\ frame' = [frame EXCEPT ![h] = f]

\* the handler's call has returned or raised; its response is f
Finish(h, f) == Goto(h, "done", f)

\* _fetch_transcript going on to the fetcher whatever cache.get returned (a
\* mutation of GetReturns)
GetReturnsIgnored(h, f, value) ==
    IF f.op = "fetch_transcript"
    THEN Goto(h, "ft_fetch", [f EXCEPT !.missed = (value = NoneVal)])
    ELSE Finish(h, [f EXCEPT !.ret = value])

\* cache.get returns value: to its caller, or into _fetch_transcript, which
\* returns a cached transcript at once and goes on to fetch after a miss
GetReturns(h, f, value) ==
    IF f.op = "fetch_transcript" /\ value = NoneVal
    THEN Goto(h, "ft_fetch", [f EXCEPT !.missed = TRUE])
    ELSE Finish(h, [f EXCEPT !.ret = value])

\* cache.set returns: _fetch_transcript then returns the fetched transcript
SetReturns(h, f) ==
    IF f.op = "fetch_transcript"
    THEN Finish(h, [f EXCEPT !.ret = f.transcript])
    ELSE Finish(h, f)

\* an exception leaves cache.set: _fetch_transcript calls set inside its try
\* block and turns every exception into an HTTPException
SetRaises(h, f, e) ==
    IF f.op = "fetch_transcript"
    THEN Finish(h, [f EXCEPT !.exc = "HTTPException"])
    ELSE Finish(h, [f EXCEPT !.exc = e])

\* ------------------------------------------------------ TranscriptCache.get

\* a handler calls cache.get(video_id, languages)
StartGet(h) ==
    /\ pc[h] = "idle" /\ MayRun(h)
    /\ \E r \in Requests :
         Goto(h, "get_lookup",
              [EmptyFrame EXCEPT !.op = "get", !.video_id = r.video_id,
                                 !.languages = r.languages])
    /\ UNCHANGED <<cache, now>>
    /\ UNCHANGED <<config, history, keyVars>>

\* get, up to the read of the entry
GetLookup(h) ==
    /\ pc[h] = "get_lookup" /\ MayRun(h)
    /\ LET f == frame[h]
           key == MakeKey(f.video_id, f.languages)
           g == [f EXCEPT !.before = cache]
       IN  IF ~enabled THEN GetReturns(h, g, NoneVal)
           ELSE IF ~HasKey(cache, key) THEN GetReturns(h, [g EXCEPT !.key = key], NoneVal)
           ELSE Goto(h, "get_expiry",
                     [g EXCEPT !.key = key,
                               !.transcript = Lookup(cache, key).transcript,
                               !.timestamp = Lookup(cache, key).timestamp])
    /\ UNCHANGED <<cache, now>>
    /\ UNCHANGED <<config, history, keyVars>>

\* get, from the expiry check to the return
GetExpiry(h) ==
    /\ pc[h] = "get_expiry" /\ MayRun(h)
    /\ LET f == [frame[h] EXCEPT !.at = now]
       IN  IF ~HasKey(cache, f.key)
           THEN /\ Finish(h, [f EXCEPT !.exc = "KeyError"])
                /\ UNCHANGED <<cache, history>>
           ELSE IF IsExpired(f.timestamp)
           THEN /\ cache' = DropExpired(cache, f.key)
                /\ lastSet' = Kept(lastSet, cache')
                /\ recency' = Stored(recency, cache')
                /\ UNCHANGED prevFetch
                /\ origin' = Known(origin, cache')
                /\ GetReturns(h, [f EXCEPT !.removed = Append(@, Lookup(cache, f.key))],
                              NoneVal)
           ELSE /\ cache' = MoveToEnd(cache, f.key)
                /\ recency' = Touch(recency, f.key)
                /\ UNCHANGED <<lastSet, prevFetch, origin>>
                /\ GetReturns(h, f, f.transcript)
    /\ UNCHANGED now
    /\ UNCHANGED <<config, keyVars>>

\* ------------------------------------------------------ TranscriptCache.set

\* a handler calls cache.set(video_id, transcript, languages)
StartSet(h) ==
    /\ pc[h] = "idle" /\ MayRun(h)
    /\ \E r \in Requests, p \in Payloads :
         Goto(h, "set_begin",
              [EmptyFrame EXCEPT !.op = "set", !.video_id = r.video_id,
                                 !.languages = r.languages, !.transcript = p])
    /\ UNCHANGED <<cache, now>>
    /\ UNCHANGED <<config, history, keyVars>>

\* set's guard, never returning early (a mutation of SetSkips)
SetSkipsNever == FALSE

\* set's guard: if not self.enabled: return
SetSkips == ~enabled

\* set, up to the removal of the key's old entry
SetBegin(h) ==
    /\ pc[h] = "set_begin" /\ MayRun(h)
    /\ LET f == [frame[h] EXCEPT !.before = cache, !.at = now]
           key == MakeKey(f.video_id, f.languages)
           a == Addressed(f.video_id, f.languages)
       IN  IF SetSkips
           THEN /\ SetReturns(h, f)
                /\ UNCHANGED <<cache, history>>
           ELSE /\ cache' = DelKey(cache, key)
                /\ lastSet' = [Kept(lastSet, cache') EXCEPT ![a] = f.transcript]
                /\ recency' = Stored(recency, cache')
                /\ UNCHANGED prevFetch
                /\ origin' = Known(origin, cache')
                /\ Goto(h, "set_evict",
                        [f EXCEPT !.key = key, !.timestamp = now,
                                  !.removed = IF HasKey(cache, key)
                                              THEN Append(@, Lookup(cache, key)) ELSE @])
    /\ UNCHANGED now
    /\ UNCHANGED <<config, keyVars>>

\* popitem taking the two oldest entries (a mutation of PopFirst)
PopFirstTwo(c) == IF Len(c) >= 2 THEN Tail(Tail(c)) ELSE Tail(c)

\* self._cache.popitem(last=False): the store without its oldest entry
PopFirst(c) == Tail(c)

\* set, one turn of the eviction loop
SetEvict(h) ==
    /\ pc[h] = "set_evict" /\ MayRun(h)
    /\ LET f == frame[h]
       IN  IF ~Full(cache)
           THEN /\ Goto(h, "set_insert", f)
                /\ UNCHANGED <<cache, history>>
           ELSE IF cache = <<>>
           THEN /\ SetRaises(h, f, "KeyError")
                /\ lastSet' = Kept(lastSet, cache)
                /\ UNCHANGED <<cache, recency, prevFetch, origin>>
           ELSE /\ cache' = PopFirst(cache)
                /\ lastSet' = [Kept(lastSet, cache') EXCEPT
                                  ![Addressed(f.video_id, f.languages)] = f.transcript]
                /\ recency' = Stored(recency, cache')
                /\ UNCHANGED prevFetch
                /\ origin' = Known(origin, cache')
                /\ Goto(h, "set_evict", [f EXCEPT !.evicted = Append(@, Head(cache))])
    /\ UNCHANGED now
    /\ UNCHANGED <<config, keyVars>>

\* set, the insertion of the new entry and the return
SetInsert(h) ==
    /\ pc[h] = "set_insert" /\ MayRun(h)
    /\ LET f == frame[h]
       IN  /\ cache' = SetItem(cache, [key |-> f.key, transcript |-> f.transcript,
                                       timestamp |-> f.timestamp])
           /\ recency' = Touch(recency, f.key)
           /\ UNCHANGED <<lastSet, prevFetch>>
           /\ origin' = IF f.op = "fetch_transcript"
                        THEN Known(origin, DelKey(cache, f.key))
                               \cup {[key |-> f.key, video_id |-> f.fetch_args.video_id,
                                      languages |-> f.fetch_args.languages,
                                      transcript |-> f.fetch_result]}
                        ELSE Known(origin, DelKey(cache, f.key))
           /\ SetReturns(h, f)
    /\ UNCHANGED now
    /\ UNCHANGED <<config, keyVars>>

\* ------------------------------------- TranscriptCache.clear and .size

\* the /cache/clear handler starts
StartClearCache(h) ==
    /\ pc[h] = "idle" /\ MayRun(h)
    /\ Goto(h, "clear", [EmptyFrame EXCEPT !.op = "clear_cache"])
    /\ UNCHANGED <<cache, now>>
    /\ UNCHANGED <<config, history, keyVars>>

\* OrderedDict.clear keeping the newest entry (a mutation of Cleared)
ClearedKeepsLast(c) == IF c = <<>> THEN c ELSE <<c[Len(c)]>>

\* self._cache.clear()
Cleared(c) == <<>>

\* cache.clear()
Clear(h) ==
    /\ pc[h] = "clear" /\ MayRun(h)
    /\ cache' = Cleared(cache)
    /\ lastSet' = Kept(lastSet, cache')
    /\ recency' = Stored(recency, cache')
    /\ Goto(h, "size", [frame[h] EXCEPT !.before = cache])
    /\ origin' = Known(origin, cache')
    /\ UNCHANGED <<now, prevFetch>>
    /\ UNCHANGED <<config, keyVars>>

\* the /cache/stats handler starts
StartGetCacheStats(h) ==
    /\ pc[h] = "idle" /\ MayRun(h)
    /\ Goto(h, "size", [EmptyFrame EXCEPT !.op = "get_cache_stats", !.before = cache,
                                         !.at = now])
    /\ UNCHANGED <<cache, now>>
    /\ UNCHANGED <<config, history, keyVars>>

\* len counting only the entries that are not expired (a mutation of Counted)
CountedFresh(c) == Len(SelectSeq(c, LAMBDA e : ~IsExpired(e.timestamp)))

\* len(self._cache)
Counted(c) == Len(c)

\* cache.size(), the last statement of both handlers
Size(h) ==
    /\ pc[h] = "size" /\ MayRun(h)
    /\ Finish(h, [frame[h] EXCEPT !.count = Counted(cache)])
    /\ UNCHANGED <<cache, now>>
    /\ UNCHANGED <<config, history, keyVars>>

\* ------------------------------------------ TranscriptCache.cleanup_expired

\* a handler calls cache.cleanup_expired()
StartCleanupExpired(h) ==
    /\ pc[h] = "idle" /\ MayRun(h)
    /\ Goto(h, "cleanup_begin", [EmptyFrame EXCEPT !.op = "cleanup_expired"])
    /\ UNCHANGED <<cache, now>>
    /\ UNCHANGED <<config, history, keyVars>>

\* the comprehension's filter, stopping at the first expired entry (a
\* mutation of Collect)
CollectFirstOnly(keys, e) ==
    IF IsExpired(e.timestamp) /\ keys = <<>> THEN Append(keys, e.key) ELSE keys

\* the comprehension's filter: entry e joins expired_keys if it is expired
Collect(keys, e) == IF IsExpired(e.timestamp) THEN Append(keys, e.key) ELSE keys

\* cleanup_expired, the enabled check
CleanupBegin(h) ==
    /\ pc[h] = "cleanup_begin" /\ MayRun(h)
    /\ LET f == [frame[h] EXCEPT !.before = cache, !.at = now]
       IN  IF ~enabled THEN Finish(h, [f EXCEPT !.count = 0])
           ELSE Goto(h, "cleanup_scan", [f EXCEPT !.idx = 1])
    /\ UNCHANGED <<cache, now>>
    /\ UNCHANGED <<config, history, keyVars>>

\* cleanup_expired, the list comprehension: one entry per step
CleanupScan(h) ==
    /\ pc[h] = "cleanup_scan" /\ MayRun(h)
    /\ LET f == frame[h]
       IN  IF f.idx > Len(cache) THEN Goto(h, "cleanup_del", [f EXCEPT !.idx = 1])
           ELSE Goto(h, "cleanup_scan",
                     [f EXCEPT !.idx = @ + 1,
                               !.expired_keys = Collect(@, cache[f.idx])])
    /\ UNCHANGED <<cache, now>>
    /\ UNCHANGED <<config, history, keyVars>>

\* cleanup_expired, the deletion loop and the return
CleanupDel(h) ==
    /\ pc[h] = "cleanup_del" /\ MayRun(h)
    /\ LET f == frame[h]
       IN  IF f.idx > Len(f.expired_keys)
           THEN /\ Finish(h, [f EXCEPT !.count = Len(f.expired_keys)])
                /\ UNCHANGED <<cache, history>>
           ELSE IF ~HasKey(cache, f.expired_keys[f.idx])
           THEN /\ Finish(h, [f EXCEPT !.exc = "KeyError"])
                /\ UNCHANGED <<cache, history>>
           ELSE /\ cache' = DelKey(cache, f.expired_keys[f.idx])
                /\ lastSet' = Kept(lastSet, cache')
                /\ recency' = Stored(recency, cache')
                /\ UNCHANGED prevFetch
                /\ origin' = Known(origin, cache')
                /\ Goto(h, "cleanup_del",
                        [f EXCEPT !.idx = @ + 1,
                                  !.removed = Append(@, Lookup(cache, f.expired_keys[f.idx]))])
    /\ UNCHANGED now
    /\ UNCHANGED <<config, keyVars>>

\* ------------------------------------------ YouTubeTools._fetch_transcript

\* languages or ["en"]
NormalizedLanguages(languages) ==
    IF Truthy(languages) THEN languages ELSE SomeLanguages(<<"en">>)

\* a captions, timestamps or performance handler calls _fetch_transcript,
\* which calls cache.get with the normalized languages
StartFetchTranscript(h) ==
    /\ pc[h] = "idle" /\ MayRun(h)
    /\ \E r \in Requests :
         Goto(h, "get_lookup",
              [EmptyFrame EXCEPT !.op = "fetch_transcript", !.video_id = r.video_id,
                                 !.requested = r.languages,
                                 !.languages = NormalizedLanguages(r.languages)])
    /\ UNCHANGED <<cache, now>>
    /\ UNCHANGED <<config, history, keyVars>>

\* api.fetch with "fail" for an exception: the outcomes of the fetcher
FetchOutcomes == Payloads \cup {"fail"}

\* what _fetch_transcript does with the outcome r of api.fetch, caching the
\* failure as if it were a transcript (a mutation of AfterFetch)
AfterFetchStoresFailure(h, f, r) ==
    Goto(h, "set_begin", [f EXCEPT !.transcript = r, !.called_set = TRUE])

\* what _fetch_transcript does with the outcome r of api.fetch: an exception
\* becomes an HTTPException, a transcript goes to cache.set
AfterFetch(h, f, r) ==
    IF r = "fail" THEN Finish(h, [f EXCEPT !.exc = "HTTPException"])
    ELSE Goto(h, "set_begin", [f EXCEPT !.transcript = r, !.called_set = TRUE])

\* api.fetch given the list of the default language whatever the caller
\* asked (a mutation of FetchArgs)
FetchArgsDefault(video_id, languages) == [video_id |-> video_id, languages |-> <<"en">>]

\* the arguments of api.fetch(video_id, languages=normalized_languages)
FetchArgs(video_id, languages) == [video_id |-> video_id, languages |-> languages.items]

\* after a miss: the call of api.fetch
Fetch(h) ==
    /\ pc[h] = "ft_fetch" /\ MayRun(h)
    /\ \E r \in FetchOutcomes :
         LET f == frame[h]
             a == Addressed(f.video_id, f.languages)
         IN  /\ AfterFetch(h, [f EXCEPT !.fetches = @ + 1, !.fetch_result = r,
                                       !.fetch_args = FetchArgs(f.video_id, f.languages),
                                       !.prior = IF prevFetch.video_id = a.video_id
                                                    /\ prevFetch.bag = a.bag
                                                 THEN prevFetch.transcript ELSE NoneVal],
                           r)
             /\ prevFetch' = IF r = "fail" THEN prevFetch
                             ELSE [video_id |-> a.video_id, bag |-> a.bag, transcript |-> r]
    /\ UNCHANGED <<cache, now, lastSet, recency, origin>>
    /\ UNCHANGED <<config, keyVars>>

\* the handler's response has gone out
Return(h) ==
    /\ pc[h] = "done"
    /\ Goto(h, "idle", EmptyFrame)
    /\ UNCHANGED <<cache, now>>
    /\ UNCHANGED <<config, history, keyVars>>

\* ----------------------------------------------------------------- Next

\* the cache's interface under any sequence of calls
Next ==
    \/ Tick
    \/ \E h \in Handlers :
         \/ StartGet(h) \/ GetLookup(h) \/ GetExpiry(h)
         \/ StartSet(h) \/ SetBegin(h) \/ SetEvict(h) \/ SetInsert(h)
         \/ StartClearCache(h) \/ Clear(h)
         \/ StartGetCacheStats(h) \/ Size(h)
         \/ StartCleanupExpired(h) \/ CleanupBegin(h) \/ CleanupScan(h) \/ CleanupDel(h)
         \/ Return(h)

Spec == Init /\ [][Next]_vars

\* the application: the handlers of app/routes/youtube.py that reach the cache
NextRoutes ==
    \/ Tick
    \/ \E h \in Handlers :
         \/ StartFetchTranscript(h) \/ GetLookup(h) \/ GetExpiry(h)
         \/ Fetch(h) \/ SetBegin(h) \/ SetEvict(h) \/ SetInsert(h)
         \/ StartClearCache(h) \/ Clear(h)
         \/ StartGetCacheStats(h) \/ Size(h)
         \/ Return(h)

SpecRoutes == Init /\ [][NextRoutes]_vars

\* the clock over a longer run, for the calls of get and set alone
MaxLate == 2

TickLate ==
    /\ now < MaxLate
    /\ now' = now + 1
    /\ UNCHANGED <<cache, pc, frame>>
    /\ UNCHANGED <<config, history, keyVars>>

\* get and set under any sequence of calls, the clock running to MaxLate
NextGetSet ==
    \/ TickLate
    \/ \E h \in Handlers :
         \/ StartGet(h) \/ GetLookup(h) \/ GetExpiry(h)
         \/ StartSet(h) \/ SetBegin(h) \/ SetEvict(h) \/ SetInsert(h)
         \/ Return(h)

SpecGetSet == Init /\ [][NextGetSet]_vars

\* ------------------------------------------------- _make_key on its own

\* every argument pair _make_key can be given within the bounds
KeyArgs ==
    { [video_id |-> v, languages |-> l] :
        v \in VideoIds,
        l \in {NoLanguages}
              \cup {SomeLanguages(x) : x \in UNION {[1..n -> Langs] : n \in 0..MaxLangs}} }

InitKey ==
    /\ cache = <<>>
    /\ enabled = TRUE
    /\ ttl_seconds = 0
    /\ max_size = 0
    /\ now = 0
    /\ pc = [h \in Handlers |-> "idle"]
    /\ frame = [h \in Handlers |-> EmptyFrame]
    /\ lastSet = [a \in AddressedSet |-> NoneVal]
    /\ recency = <<>>
    /\ prevFetch = NoFetch
    /\ origin = {}
    /\ keyIn \in KeyArgs \X KeyArgs
    /\ keyOut = <<>>

\* _make_key is applied to the first argument pair
MakeFirstKey ==
    /\ Len(keyOut) = 0
    /\ keyOut' = <<MakeKey(keyIn[1].video_id, keyIn[1].languages)>>
    /\ UNCHANGED <<cacheVars, keyIn>>

\* _make_key is applied to the second argument pair
MakeSecondKey ==
    /\ Len(keyOut) = 1
    /\ keyOut' = Append(keyOut, MakeKey(keyIn[2].video_id, keyIn[2].languages))
    /\ UNCHANGED <<cacheVars, keyIn>>

NextKey == MakeFirstKey \/ MakeSecondKey

SpecKey == InitKey /\ [][NextKey]_vars

\* ------------------------------------------------------- the properties

Done(h, op) == pc[h] = "done" /\ frame[h].op = op

\* the age, on the clock a call read, of the entry it found under its key
AgeAt(f) == f.at - Lookup(f.before, f.key).timestamp

\* C1: on an enabled cache, whatever calls have been made and wherever they
\* stand, the number of stored entries never exceeds max_size.
C1_SizeBound == enabled => Len(cache) <= max_size

\* a set that had to evict has returned and the store is exactly full
C1_Witness ==
    \E h \in Handlers :
        /\ Done(h, "set") /\ frame[h].evicted # <<>>
        /\ enabled /\ max_size >= 1 /\ Len(cache) = max_size

\* C2: a get that returns a payload found, under its key, an entry whose age
\* was at most ttl_seconds when it checked; a get that finds an entry older
\* than ttl_seconds returns None.
C2_NoExpiredHit ==
    \A h \in Handlers :
        Done(h, "get") /\ frame[h].exc = "none" =>
            /\ frame[h].ret # NoneVal =>
                   /\ HasKey(frame[h].before, frame[h].key)
                   /\ AgeAt(frame[h]) <= ttl_seconds
            /\ (HasKey(frame[h].before, frame[h].key) /\ AgeAt(frame[h]) > ttl_seconds) =>
                   frame[h].ret = NoneVal

\* a get has found an entry older than ttl_seconds, which no cleanup had
\* removed, and has returned None
C2_Witness ==
    \E h \in Handlers :
        /\ Done(h, "get") /\ frame[h].ret = NoneVal
        /\ HasKey(frame[h].before, frame[h].key)
        /\ AgeAt(frame[h]) > ttl_seconds

\* C3: with max_size = 0 on an enabled cache, set completes normally and
\* leaves the store empty, and a get returns None.
C3_MaxSizeZeroSetCompletes ==
    \A h \in Handlers :
        enabled /\ max_size = 0 =>
            /\ Done(h, "set") => frame[h].exc = "none" /\ Len(cache) = 0
            /\ Done(h, "get") => frame[h].ret = NoneVal

\* the entries of store c that a call with these arguments addresses
EntriesFor(c, video_id, languages) ==
    SelectSeq(c, LAMBDA e : AddressedByKey(e.key) = Addressed(video_id, languages))

\* store c without the entries under key k
Without(c, k) == SelectSeq(c, LAMBDA e : e.key # k)

\* C4: eviction is least-recently-used, a set and a get that hits both being
\* a use: every entry set's eviction loop removes is the stored key that was
\* used the longest ago.
C4_EvictsLeastRecentlyUsed ==
    [][\A h \in Handlers :
          (pc[h] = "set_evict" /\ Len(frame'[h].evicted) = Len(frame[h].evicted) + 1) =>
              /\ recency # <<>>
              /\ frame'[h].evicted[Len(frame'[h].evicted)].key = Head(recency)
              /\ cache' = Without(cache, Head(recency))]_vars

\* with max_size = 2 a set has evicted one entry and has kept an entry that was
\* stored before the evicted one: a get had promoted the older entry
C4_Witness ==
    \E h \in Handlers :
        /\ Done(h, "set") /\ max_size = 2 /\ Len(frame[h].evicted) = 1
        /\ Len(cache) = 2
        /\ \E i \in DOMAIN cache : cache[i].timestamp < frame[h].evicted[1].timestamp

\* C5: a get that hits returns the payload of the latest set call for the
\* entry it addresses; on an enabled cache with max_size >= 1 a set leaves its
\* payload stored for that entry, and a get that finds it within the TTL
\* returns it.
C5_RoundTrip ==
    \A h \in Handlers :
        /\ (Done(h, "get") /\ frame[h].ret # NoneVal) =>
               frame[h].ret = lastSet[Addressed(frame[h].video_id, frame[h].languages)]
        /\ (Done(h, "set") /\ enabled /\ max_size >= 1) =>
               /\ frame[h].exc = "none"
               /\ \E i \in DOMAIN cache :
                      /\ AddressedByKey(cache[i].key)
                            = Addressed(frame[h].video_id, frame[h].languages)
                      /\ cache[i].transcript = frame[h].transcript
        /\ Done(h, "get") =>
               \A i \in DOMAIN frame[h].before :
                   LET e == frame[h].before[i]
                   IN  (/\ AddressedByKey(e.key)
                              = Addressed(frame[h].video_id, frame[h].languages)
                        /\ frame[h].at - e.timestamp <= ttl_seconds) =>
                           frame[h].ret = e.transcript

\* a get with ["es", "en"] has returned the payload of the latest set for its
\* entry, out of a store of two entries
C5_Witness ==
    \E h \in Handlers :
        /\ Done(h, "get") /\ frame[h].ret = "P2"
        /\ frame[h].languages = SomeLanguages(<<"es", "en">>)
        /\ lastSet[Addressed(frame[h].video_id, frame[h].languages)] = "P2"
        /\ Len(cache) = 2

\* one list is a rearrangement of the other
IsPermutation(l1, l2) == \A x \in Langs : CountOf(l1, x) = CountOf(l2, x)

\* the list a language argument stands for: ["en"] where it is None or empty
Meant(languages) == IF languages.none \/ languages.items = <<>> THEN <<"en">>
                    ELSE languages.items

\* C6: for one video id, two language lists that are rearrangements of each
\* other give the same key, and None and the empty list give the key of ["en"].
C6_KeyNormalization ==
    Len(keyOut) = 2 =>
        ((/\ keyIn[1].video_id = keyIn[2].video_id
          /\ IsPermutation(Meant(keyIn[1].languages), Meant(keyIn[2].languages)))
            => keyOut[1] = keyOut[2])

\* ["es", "en"] and ["en", "es"] have been given the same key
C6_Witness ==
    /\ Len(keyOut) = 2
    /\ keyIn[1].video_id = keyIn[2].video_id
    /\ keyIn[1].languages = SomeLanguages(<<"es", "en">>)
    /\ keyIn[2].languages = SomeLanguages(<<"en", "es">>)
    /\ keyOut[1] = keyOut[2]

\* the statements inside a cache operation, after its first and before its return
MidOperation == {"get_expiry", "set_evict", "set_insert", "cleanup_scan", "cleanup_del"}

UniqueKeys(c) == \A i, j \in DOMAIN c : c[i].key = c[j].key => i = j
KeyOrder(c) == [i \in DOMAIN c |-> c[i].key]

\* C7: the cache operations are atomic among the handlers: while one handler
\* is inside an operation no other handler is at any statement, so none sees
\* a half-evicted or half-promoted store; and between operations the store
\* holds each key once, within max_size, in the order of the keys' latest uses
\* by the operations completed so far.
C7_OperationsAtomic ==
    /\ \A h, g \in Handlers :
           (h # g /\ pc[g] \in MidOperation) => pc[h] = "idle"
    /\ (\A h \in Handlers : pc[h] \notin MidOperation) =>
           /\ UniqueKeys(cache)
           /\ enabled => Len(cache) <= max_size
           /\ KeyOrder(cache) = recency

\* a set is between its evictions and its insertion, the store is short of
\* the entry being written, and the other handlers have not started
C7_Witness ==
    \E h \in Handlers :
        /\ pc[h] = "set_insert" /\ frame[h].evicted # <<>>
        /\ ~HasKey(cache, frame[h].key)
        /\ \A g \in Handlers \ {h} : pc[g] = "idle"

\* the entries stored for the key of handler h's call
Mine(h) == EntriesFor(cache, frame[h].video_id, frame[h].languages)

\* handler h's _fetch_transcript missed, fetched and called set, after an
\* earlier call that had missed on the same key, fetched and called set
SecondOfTwoFetches(h) ==
    /\ Done(h, "fetch_transcript")
    /\ frame[h].missed /\ frame[h].fetches = 1 /\ frame[h].called_set
    /\ frame[h].prior # NoneVal

\* C8 as stated: once two callers have both missed on a key, both fetched and
\* both called set, the store holds exactly one entry for the key, with the
\* payload and the timestamp of the later set.
C8_ExactlyOneAfterTwoFetches ==
    \A h \in Handlers :
        SecondOfTwoFetches(h) =>
            /\ Len(Mine(h)) = 1
            /\ Mine(h)[1].transcript = frame[h].transcript
            /\ Mine(h)[1].timestamp = frame[h].at

\* C8, amended: once two callers have both missed on a key, both fetched and
\* both called set, the store holds at most one entry for the key; on an
\* enabled cache with max_size >= 1 it holds exactly one, with the payload
\* and the timestamp of the later set.
C8_AtMostOneAfterTwoFetches ==
    \A h \in Handlers :
        SecondOfTwoFetches(h) =>
            /\ Len(Mine(h)) <= 1
            /\ (enabled /\ max_size >= 1) =>
                   /\ Len(Mine(h)) = 1
                   /\ Mine(h)[1].transcript = frame[h].transcript
                   /\ Mine(h)[1].timestamp = frame[h].at
                   /\ frame[h].ret = frame[h].transcript
                   /\ frame[h].exc = "none"

\* the second of two callers has stored a payload that differs from the one
\* the first had fetched for the same key
C8_Witness ==
    \E h \in Handlers :
        /\ SecondOfTwoFetches(h)
        /\ enabled /\ max_size >= 1
        /\ frame[h].prior # frame[h].transcript
        /\ Len(Mine(h)) = 1 /\ Mine(h)[1].transcript = frame[h].transcript

\* C9: when api.fetch raises, _fetch_transcript does not call set and does
\* not fetch again, it ends with an HTTPException and returns nothing, and
\* the store holds no entry for the key and no entry that is not a transcript.
C9_FailedFetchNotCached ==
    \A h \in Handlers :
        (Done(h, "fetch_transcript") /\ frame[h].fetch_result = "fail") =>
            /\ ~frame[h].called_set
            /\ frame[h].fetches = 1
            /\ frame[h].exc = "HTTPException"
            /\ frame[h].ret = NoneVal
            /\ Mine(h) = <<>>
            /\ \A i \in DOMAIN cache : cache[i].transcript \in Payloads

\* a fetch has failed on a key whose expired entry the preceding get had
\* removed, while another entry stays stored
C9_Witness ==
    \E h \in Handlers :
        /\ Done(h, "fetch_transcript") /\ frame[h].fetch_result = "fail"
        /\ frame[h].removed # <<>>
        /\ Len(cache) >= 1

\* C10: a get on a stored key whose age exceeds ttl_seconds returns None and
\* removes that entry and no other: the size drops by one and the other
\* entries keep their order.
C10_LazyExpiry ==
    \A h \in Handlers :
        (/\ Done(h, "get")
         /\ HasKey(frame[h].before, frame[h].key)
         /\ AgeAt(frame[h]) > ttl_seconds) =>
            /\ frame[h].ret = NoneVal
            /\ frame[h].exc = "none"
            /\ cache = Without(frame[h].before, frame[h].key)
            /\ Len(cache) = Len(frame[h].before) - 1

\* a get has removed an expired entry from a store that held another entry
C10_Witness ==
    \E h \in Handlers :
        /\ Done(h, "get") /\ Len(frame[h].before) = 2 /\ Len(cache) = 1
        /\ HasKey(frame[h].before, frame[h].key)
        /\ AgeAt(frame[h]) > ttl_seconds

\* the entries of store c that are still in store d, in c's order
Surviving(c, d) == SelectSeq(c, LAMBDA e : HasKey(d, e.key))

\* C11: cleanup_expired on an enabled cache removes every entry that was older
\* than ttl_seconds when the call began, keeps every entry that is not older
\* than ttl_seconds when it has returned, removes nothing else than entries
\* it found expired, returns the number removed (the drop of size()), and
\* keeps the remaining entries with payload, timestamp and order; on a
\* disabled cache it returns 0 and removes nothing.
C11_CleanupExact ==
    \A h \in Handlers :
        Done(h, "cleanup_expired") =>
            LET f == frame[h]
            IN  /\ f.exc = "none"
                /\ cache = Surviving(f.before, cache)
                /\ f.count = Len(f.before) - Len(cache)
                /\ ~enabled => f.count = 0 /\ cache = f.before
                /\ enabled =>
                       \A i \in DOMAIN f.before :
                           LET e == f.before[i]
                           IN  /\ f.at - e.timestamp > ttl_seconds => ~HasKey(cache, e.key)
                               /\ now - e.timestamp <= ttl_seconds => HasKey(cache, e.key)
                               /\ ~HasKey(cache, e.key) => now - e.timestamp > ttl_seconds

\* cleanup_expired has removed the older of two entries, has kept the newer
\* one and has returned 1
C11_Witness ==
    \E h \in Handlers :
        /\ Done(h, "cleanup_expired") /\ enabled
        /\ Len(frame[h].before) = 2 /\ frame[h].count = 1
        /\ cache = <<frame[h].before[2]>>
        /\ frame[h].at - frame[h].before[1].timestamp > ttl_seconds

\* C12: a set on a key that is already stored leaves exactly one entry for
\* the key, at the most recently used position, with the payload of this set
\* and the time this set read; the old payload and timestamp are gone, nothing
\* is evicted and the other entries keep their order.
C12_ReinsertRefreshes ==
    \A h \in Handlers :
        (Done(h, "set")
           /\ EntriesFor(frame[h].before, frame[h].video_id, frame[h].languages) # <<>>) =>
            LET f == frame[h]
                old == EntriesFor(f.before, f.video_id, f.languages)[1]
            IN  /\ f.exc = "none"
                /\ Len(Mine(h)) = 1
                /\ cache[Len(cache)] = Mine(h)[1]
                /\ Mine(h)[1].transcript = f.transcript
                /\ Mine(h)[1].timestamp = f.at
                /\ f.evicted = <<>>
                /\ Len(cache) = Len(f.before)
                /\ SubSeq(cache, 1, Len(cache) - 1) = Without(f.before, old.key)

\* a set has replaced the least recently used of two entries by a different
\* payload at a later time, and the entry is now the most recently used
C12_Witness ==
    \E h \in Handlers :
        /\ Done(h, "set") /\ Len(frame[h].before) = 2 /\ Len(cache) = 2
        /\ AddressedByKey(frame[h].before[1].key)
              = Addressed(frame[h].video_id, frame[h].languages)
        /\ frame[h].before[1].transcript # frame[h].transcript
        /\ frame[h].before[1].timestamp < frame[h].at
        /\ cache[2].transcript = frame[h].transcript
        /\ cache[2].timestamp = frame[h].at

\* C13: on a disabled cache the store is empty in every state, every get
\* returns None, every set returns without storing, size() is 0 and
\* cleanup_expired returns 0; none of them raises.
C13_DisabledCache ==
    ~enabled =>
        /\ cache = <<>>
        /\ \A h \in Handlers :
               /\ pc[h] = "done" => frame[h].exc = "none"
               /\ Done(h, "get") => frame[h].ret = NoneVal
               /\ Done(h, "set") => frame[h].evicted = <<>> /\ frame[h].removed = <<>>
               /\ Done(h, "get_cache_stats") => frame[h].count = 0
               /\ Done(h, "clear_cache") => frame[h].count = 0
               /\ Done(h, "cleanup_expired") => frame[h].count = 0

\* a set has returned on a disabled cache that has room, and nothing is stored
C13_Witness ==
    \E h \in Handlers :
        /\ Done(h, "set") /\ ~enabled /\ max_size >= 1
        /\ frame[h].transcript \in Payloads
        /\ cache = <<>>

\* C14: clear removes every entry, whatever the configuration: when the
\* clear_cache handler has returned the store is empty and the size it
\* reports is 0, and a get that finds the store empty returns None for
\* whatever key it asks, the keys stored before the clear included.
C14_ClearRemovesAll ==
    \A h \in Handlers :
        /\ Done(h, "clear_cache") =>
               /\ cache = <<>>
               /\ frame[h].count = 0
               /\ frame[h].exc = "none"
               /\ \A i \in DOMAIN frame[h].before : ~HasKey(cache, frame[h].before[i].key)
        /\ (Done(h, "get") /\ frame[h].before = <<>>) =>
               frame[h].ret = NoneVal /\ cache = <<>>

\* clear has emptied a store of two entries and the handler has reported size 0
C14_Witness ==
    \E h \in Handlers :
        /\ Done(h, "clear_cache") /\ Len(frame[h].before) = 2
        /\ cache = <<>> /\ frame[h].count = 0

\* the entries the call of handler h found stored for its key
Found(h) == EntriesFor(frame[h].before, frame[h].video_id, frame[h].languages)

\* C15, in every state: _fetch_transcript reaches the fetcher only after its
\* get missed, and that get missed only where no entry was stored for the key
\* or the stored one was older than ttl_seconds; a call whose get hit returns
\* the cached payload without fetching and without calling set; and on an
\* enabled cache with max_size >= 1 a call that fetched leaves its transcript
\* stored for the key.
C15_ConsultsCacheFirst ==
    \A h \in Handlers :
        LET f == frame[h]
        IN  /\ f.fetches >= 1 => f.missed
            /\ pc[h] = "ft_fetch" =>
                   /\ f.missed /\ f.fetches = 0
                   /\ \A i \in DOMAIN Found(h) :
                          f.at - Found(h)[i].timestamp > ttl_seconds
            /\ (Done(h, "fetch_transcript") /\ ~f.missed) =>
                   /\ f.fetches = 0 /\ ~f.called_set /\ f.exc = "none"
                   /\ Len(Found(h)) = 1
                   /\ f.ret = Found(h)[1].transcript
                   /\ f.at - Found(h)[1].timestamp <= ttl_seconds
            /\ (Done(h, "fetch_transcript") /\ f.called_set /\ enabled /\ max_size >= 1) =>
                   /\ Len(Mine(h)) = 1
                   /\ Mine(h)[1].transcript = f.ret
                   /\ f.ret = f.fetch_result

\* C15, in every step: an entry leaves the store only by set's eviction, by
\* clear, by the get that finds it older than ttl_seconds, or by the set that
\* replaces it; so a transcript a call has stored is there for the next
\* calls, which hit on it, until one of these happens.
C15_LeavesOnlyBy ==
    \A i \in DOMAIN cache :
        ~HasKey(cache', cache[i].key) =>
            \E h \in Handlers :
                \/ pc[h] = "clear"
                \/ pc[h] = "set_evict" /\ i = 1
                       /\ frame'[h].evicted = Append(frame[h].evicted, cache[i])
                \/ pc[h] = "get_expiry" /\ frame[h].key = cache[i].key
                       /\ now - cache[i].timestamp > ttl_seconds
                \/ pc[h] = "set_begin" /\ frame'[h].key = cache[i].key
                       /\ frame[h].missed /\ frame[h].fetches = 1

\* C15: the cache is consulted before the fetcher, and after a successful
\* _fetch_transcript the calls for the same key are hits for as long as the
\* entry is within the TTL and has not been evicted or cleared.
C15_CacheBeforeFetcher == []C15_ConsultsCacheFirst /\ [][C15_LeavesOnlyBy]_vars

\* a call has returned, without fetching, the transcript that the latest
\* fetching call had stored for the same key
C15_Witness ==
    \E h \in Handlers :
        /\ Done(h, "fetch_transcript") /\ ~frame[h].missed /\ frame[h].fetches = 0
        /\ prevFetch.video_id = frame[h].video_id
        /\ prevFetch.bag = Addressed(frame[h].video_id, frame[h].languages).bag
        /\ frame[h].ret = prevFetch.transcript
        /\ Len(cache) = 2

\* C16: the statistics handler is a pure read: when it has returned, the
\* store is the one it found, entry by entry and in order, the order of use
\* is unchanged, and the size it reports is the number of entries it found,
\* the expired ones included.
C16_StatsPure ==
    \A h \in Handlers :
        Done(h, "get_cache_stats") =>
            /\ cache = frame[h].before
            /\ KeyOrder(cache) = recency
            /\ frame[h].count = Len(frame[h].before)
            /\ frame[h].exc = "none"

\* the statistics were taken of a store of two entries, one older than
\* ttl_seconds at that time, and the size reported is 2
C16_Witness ==
    \E h \in Handlers :
        /\ Done(h, "get_cache_stats") /\ frame[h].count = 2
        /\ cache = frame[h].before
        /\ frame[h].at - cache[1].timestamp > ttl_seconds
        /\ frame[h].at - cache[2].timestamp <= ttl_seconds

\* the steps of the call handler h is serving
CallStep(h) ==
    \/ GetLookup(h) \/ GetExpiry(h)
    \/ SetBegin(h) \/ SetEvict(h) \/ SetInsert(h)
    \/ Clear(h) \/ Size(h)
    \/ CleanupBegin(h) \/ CleanupScan(h) \/ CleanupDel(h)
    \/ Fetch(h)

\* an upper bound of the number of steps handler h's call still takes in
\* store c, from statement at with frame f
Remaining(at, f, c) ==
    CASE at = "get_lookup" -> Len(c) + 6
      [] at = "get_expiry" -> Len(c) + 5
      [] at = "ft_fetch" -> Len(c) + 4
      [] at = "set_begin" -> Len(c) + 3
      [] at = "set_evict" -> Len(c) + 2
      [] at = "set_insert" -> 1
      [] at = "clear" -> 2
      [] at = "size" -> 1
      [] at = "cleanup_begin" -> 2 * Len(c) + 4
      [] at = "cleanup_scan" -> 2 * Len(c) + 3 - f.idx
      [] at = "cleanup_del" -> Len(f.expired_keys) + 2 - f.idx
      [] OTHER -> 0

\* C17, in every state: with max_size >= 1 no call has ended with an
\* exception, a call that has started can always take its next step, and
\* set's eviction loop has removed no more entries than the store held.
C17_NoFailure ==
    max_size >= 1 =>
        \A h \in Handlers :
            /\ frame[h].exc = "none"
            /\ pc[h] \notin {"idle", "done"} => ENABLED CallStep(h)
            /\ Len(frame[h].evicted) <= Len(frame[h].before)
            /\ Remaining(pc[h], frame[h], cache) >= 0

\* C17, in every step: a step of a call lowers the bound of the steps the
\* call still takes, so the call returns after finitely many steps.
C17_Progress ==
    \A h \in Handlers :
        (pc[h] \notin {"idle", "done"} /\ <<pc[h], frame[h]>>' # <<pc[h], frame[h]>>) =>
            Remaining(pc'[h], frame'[h], cache') < Remaining(pc[h], frame[h], cache)

\* C17: with max_size >= 1 each of get, set, clear, size and cleanup_expired
\* returns after finitely many steps without raising, and the eviction loop
\* of set stops after finitely many removals.
C17_TerminatesWithoutRaising == []C17_NoFailure /\ [][C17_Progress]_vars

\* on a full store of two entries a set of a third key has evicted one entry
\* and has returned without an exception
C17_Witness ==
    \E h \in Handlers :
        /\ Done(h, "set") /\ max_size = 2 /\ Len(frame[h].before) = 2
        /\ ~HasKey(frame[h].before, frame[h].key)
        /\ Len(frame[h].evicted) = 1 /\ frame[h].exc = "none"

\* C18: expiry compares strictly: a get that finds its entry at an age equal
\* to ttl_seconds returns the payload and keeps the entry, as the most
\* recently used; cleanup_expired keeps every entry whose age equals
\* ttl_seconds; and whatever get or cleanup_expired removed was older than
\* ttl_seconds.  With ttl_seconds = 0 this is the entry read at the clock
\* value at which it was set.
C18_StrictExpiry ==
    \A h \in Handlers :
        LET f == frame[h]
        IN  /\ (Done(h, "get") /\ HasKey(f.before, f.key) /\ AgeAt(f) = ttl_seconds) =>
                   /\ f.ret = Lookup(f.before, f.key).transcript
                   /\ f.removed = <<>>
                   /\ cache # <<>> /\ cache[Len(cache)] = Lookup(f.before, f.key)
            /\ Done(h, "cleanup_expired") =>
                   \A i \in DOMAIN f.before :
                       now - f.before[i].timestamp = ttl_seconds =>
                           HasKey(cache, f.before[i].key)
            /\ (Done(h, "get") \/ Done(h, "cleanup_expired")) =>
                   \A i \in DOMAIN f.removed : now - f.removed[i].timestamp > ttl_seconds

\* with ttl_seconds = 1 a get has hit on an entry that was set one tick before
C18_Witness ==
    \E h \in Handlers :
        /\ Done(h, "get") /\ ttl_seconds = 1
        /\ HasKey(frame[h].before, frame[h].key) /\ AgeAt(frame[h]) = 1
        /\ frame[h].ret \in Payloads

\* the entries of store c under other keys than the one a call addresses
OthersOf(c, video_id, languages) ==
    SelectSeq(c, LAMBDA e : AddressedByKey(e.key) # Addressed(video_id, languages))

\* the entries handler h's call found stored under other keys than its own
OthersBefore(h) == OthersOf(frame[h].before, frame[h].video_id, frame[h].languages)

\* C19: get and set never sweep.  A get leaves every entry under another key
\* stored, unchanged and in order, expired or not.  A set removes entries
\* under other keys only by eviction: only when the store without its own
\* key is at max_size, only as many as make room for one entry, and only from
\* the least recently used end, whatever the age of the entries; the rest
\* stay stored, unchanged and in order.
C19_NeverSweeps ==
    \A h \in Handlers :
        LET f == frame[h]
            others == OthersBefore(h)
            kept == OthersOf(cache, f.video_id, f.languages)
        IN  /\ Done(h, "get") => kept = others
            /\ (Done(h, "set") /\ f.exc = "none") =>
                   /\ f.evicted = SubSeq(others, 1, Len(f.evicted))
                   /\ kept = SubSeq(others, Len(f.evicted) + 1, Len(others))
                   /\ f.evicted # <<>> =>
                          /\ Len(others) >= max_size
                          /\ Len(f.evicted) = Len(others) - max_size + 1

\* a set of a new key into a full store of two entries has evicted the least
\* recently used entry, which was not expired, and has left the other entry
\* stored, which was expired
C19_Witness ==
    \E h \in Handlers :
        /\ Done(h, "set") /\ max_size = 2 /\ Len(frame[h].before) = 2
        /\ Len(OthersBefore(h)) = 2
        /\ frame[h].evicted = <<frame[h].before[1]>>
        /\ frame[h].at - frame[h].before[1].timestamp <= ttl_seconds
        /\ frame[h].at - frame[h].before[2].timestamp > ttl_seconds
        /\ Len(cache) = 2 /\ cache[1] = frame[h].before[2]

\* C20: a get that returns None because no entry is stored for its key, or
\* because the cache is disabled, changes nothing: the store is the one the
\* call found, entry by entry and in order, and so is the order of use.
C20_MissHasNoEffect ==
    \A h \in Handlers :
        (Done(h, "get") /\ Found(h) = <<>>) =>
            /\ frame[h].ret = NoneVal
            /\ frame[h].exc = "none"
            /\ frame[h].removed = <<>>
            /\ cache = frame[h].before
            /\ KeyOrder(cache) = recency

\* a get has missed on a key that is not stored, in a store of two entries
\* of which one is expired, and the store is as it was
C20_Witness ==
    \E h \in Handlers :
        /\ Done(h, "get") /\ enabled /\ Found(h) = <<>>
        /\ Len(frame[h].before) = 2 /\ cache = frame[h].before
        /\ now - cache[1].timestamp > ttl_seconds
        /\ frame[h].ret = NoneVal

\* C21: on an enabled cache with max_size >= 1 a set removes at most one entry
\* under another key.  A set of a key already stored evicts nothing, also in a
\* full store, and leaves the size as it was; a set of a new key evicts
\* exactly one entry where the store held max_size entries, and none where it
\* held fewer, the size growing by one only then.
C21_SetRemovesAtMostOne ==
    \A h \in Handlers :
        (Done(h, "set") /\ enabled /\ max_size >= 1) =>
            LET f == frame[h]
                kept == OthersOf(cache, f.video_id, f.languages)
            IN  /\ Len(OthersBefore(h)) - Len(kept) <= 1
                /\ Len(f.evicted) = Len(OthersBefore(h)) - Len(kept)
                /\ Found(h) # <<>> =>
                       f.evicted = <<>> /\ Len(cache) = Len(f.before)
                /\ (Found(h) = <<>> /\ Len(f.before) = max_size) =>
                       Len(f.evicted) = 1 /\ Len(cache) = Len(f.before)
                /\ (Found(h) = <<>> /\ Len(f.before) < max_size) =>
                       f.evicted = <<>> /\ Len(cache) = Len(f.before) + 1

\* a set of a key already stored has returned in a full store of two entries:
\* nothing was evicted and the size is still two
C21_Witness ==
    \E h \in Handlers :
        /\ Done(h, "set") /\ enabled /\ max_size = 2
        /\ Len(frame[h].before) = 2 /\ Found(h) # <<>>
        /\ frame[h].evicted = <<>> /\ Len(cache) = 2
        /\ Len(OthersOf(cache, frame[h].video_id, frame[h].languages)) = 1

\* C22, in every state: a get that hits leaves the entry as it found it, with
\* its timestamp, at the most recently used position, and a get that finds
\* its entry older than ttl_seconds misses, wherever the entry stands in the
\* order of use.
C22_HitKeepsTimestamp ==
    \A h \in Handlers :
        LET f == frame[h]
        IN  /\ (Done(h, "get") /\ f.ret # NoneVal) =>
                   /\ Len(Found(h)) = 1
                   /\ cache # <<>> /\ cache[Len(cache)] = Found(h)[1]
                   /\ f.at - Found(h)[1].timestamp <= ttl_seconds
            /\ (Done(h, "get") /\ Found(h) # <<>>
                   /\ f.at - Found(h)[1].timestamp > ttl_seconds) =>
                   f.ret = NoneVal /\ Mine(h) = <<>>

\* C22, in every step: a stored entry keeps its payload and its timestamp for
\* as long as it is stored, and an entry enters the store only at the end of
\* a set, with the time that set read: the timestamp of an entry is the time
\* of the latest set of its key.
C22_StampedOnlyBySet ==
    /\ \A i \in DOMAIN cache :
           HasKey(cache', cache[i].key) => Lookup(cache', cache[i].key) = cache[i]
    /\ \A j \in DOMAIN cache' :
           ~HasKey(cache, cache'[j].key) =>
               \E h \in Handlers :
                   /\ pc[h] = "set_insert" /\ pc'[h] = "done"
                   /\ cache'[j].key = frame[h].key
                   /\ cache'[j].timestamp = frame[h].at
                   /\ frame[h].at <= now

\* C22: a get that hits promotes the entry and does not extend its lifetime:
\* the entry misses once more than ttl_seconds have passed since the latest
\* set of its key, however often it was read in between.
C22_ReadsDoNotExtendLifetime == []C22_HitKeepsTimestamp /\ [][C22_StampedOnlyBySet]_vars

\* a get has missed on an expired entry that stood at the most recently used
\* position behind an entry set after it: a read had promoted it since
C22_Witness ==
    \E h \in Handlers :
        /\ Done(h, "get") /\ frame[h].ret = NoneVal
        /\ Len(frame[h].before) = 2
        /\ Found(h) = <<frame[h].before[2]>>
        /\ frame[h].before[2].timestamp < frame[h].before[1].timestamp
        /\ frame[h].at - frame[h].before[2].timestamp > ttl_seconds
        /\ cache = <<frame[h].before[1]>>

\* the codes of list l are in sorted order
IsSorted(l) == \A i, j \in DOMAIN l : i < j => LangRank(l[i]) <= LangRank(l[j])

\* C23: the key is the video id with the sorted language list, duplicates
\* kept: two argument pairs get the same key exactly where the ids are equal
\* and the lists (["en"] for None and for the empty list) are equal as
\* multisets; so ["en", "en"] and ["en"] get different keys, and different
\* ids always do.
C23_KeyIsSortedMultiset ==
    Len(keyOut) = 2 =>
        /\ \A i \in 1..2 :
               /\ keyOut[i].video_id = keyIn[i].video_id
               /\ IsSorted(keyOut[i].langs)
               /\ IsPermutation(keyOut[i].langs, Meant(keyIn[i].languages))
               /\ Len(keyOut[i].langs) = Len(Meant(keyIn[i].languages))
        /\ keyOut[1] = keyOut[2] <=>
               /\ keyIn[1].video_id = keyIn[2].video_id
               /\ IsPermutation(Meant(keyIn[1].languages), Meant(keyIn[2].languages))

\* ["en", "en"] and ["en"] have been given different keys for one video id
C23_Witness ==
    /\ Len(keyOut) = 2
    /\ keyIn[1].video_id = keyIn[2].video_id
    /\ keyIn[1].languages = SomeLanguages(<<"en", "en">>)
    /\ keyIn[2].languages = SomeLanguages(<<"en">>)
    /\ keyOut[1] # keyOut[2]

\* the api.fetch calls whose transcript is stored under key k
OriginOf(k) == {o \in origin : o.key = k}

\* C24: a payload _fetch_transcript(id, L) returns was obtained from api.fetch
\* for the same id and for a list that is a rearrangement of L (of ["en"]
\* where L is None or empty): after a miss it is what this call's api.fetch
\* gave, called with the caller's list in the caller's order; after a hit it
\* is the stored transcript of one earlier api.fetch call for this id and a
\* rearrangement of L.
C24_PayloadProvenance ==
    \A h \in Handlers :
        (Done(h, "fetch_transcript") /\ frame[h].ret # NoneVal) =>
            LET f == frame[h]
                L == Meant(f.requested)
            IN  /\ f.missed =>
                       /\ f.ret = f.fetch_result
                       /\ f.fetch_args.video_id = f.video_id
                       /\ f.fetch_args.languages = L
                /\ ~f.missed =>
                       /\ cache # <<>> /\ cache[Len(cache)].transcript = f.ret
                       /\ Cardinality(OriginOf(cache[Len(cache)].key)) = 1
                       /\ \A o \in OriginOf(cache[Len(cache)].key) :
                              /\ o.transcript = f.ret
                              /\ o.video_id = f.video_id
                              /\ IsPermutation(o.languages, L)

\* a call for ["es", "en"] has returned, on a hit, the transcript that
\* api.fetch had given for ["en", "es"]
C24_Witness ==
    \E h \in Handlers :
        /\ Done(h, "fetch_transcript") /\ ~frame[h].missed
        /\ frame[h].requested = SomeLanguages(<<"es", "en">>)
        /\ \E o \in OriginOf(cache[Len(cache)].key) :
               /\ o.languages = <<"en", "es">>
               /\ o.transcript = frame[h].ret

====
